---- MODULE Spec2Model ----
(***************************************************************************)
(* Request execution layer of dpd_client: the parameter builders           *)
(* (params.py), the resource facade (client.py) and the transport executor *)
(* with its retry loop and its time-bounded cache (http.py), in the        *)
(* blocking (HTTPClient / DPDClient) and the awaitable (AsyncHTTPClient /  *)
(* AsyncDPDClient) variant.                                                *)
(***************************************************************************)
EXTENDS Naturals, Integers, Sequences, FiniteSets, TLC

VARIABLES
    variant,       \* "sync": DPDClient + HTTPClient, "async": AsyncDPDClient + AsyncHTTPClient
    max_retries,   \* HTTPClient.max_retries
    ttl_arg,       \* the cache_ttl argument the client was constructed with
    cache_ttl,     \* HTTPClient._cache_ttl (0 = caching disabled)
    lang_arg,      \* the lang argument the client was constructed with
    default_lang,  \* DPDClient.default_lang
    closed,        \* close() / aclose() was called: the httpx client is closed
    cache,         \* HTTPClient._cache: key -> [expiry, data]
    now,           \* the clock read by _now()
    calls,         \* the logical calls in flight, one record per slot
    started,       \* number of logical calls started so far
    hist           \* the last two finished calls, in order of completion

vars == <<variant, max_retries, ttl_arg, cache_ttl, lang_arg, default_lang, closed, cache, now, calls, started, hist>>

-----------------------------------------------------------------------------
(* Bounds of the model *)

MaxCalls == 2        \* logical calls per behaviour
MaxTime == 2         \* clock ticks per behaviour
MaxRetriesCfg == 3   \* largest configured retry budget
MaxTtl == 1          \* largest configured cache_ttl
MaxLen == 3          \* elements of a JSON array in a response body
MaxBackoffCfg == 5   \* largest retry budget where the delays are looked at

Slots == {1, 2}      \* calls that may be in flight together (async only)

-----------------------------------------------------------------------------
(* Python values: a tag and the text str() gives for the value *)

None == <<"none", "None">>
I(text) == <<"int", text>>
S(text) == <<"str", text>>
PyTrue == <<"bool", "True">>
PyFalse == <<"bool", "False">>

\* bool(v): None, 0, "" and False are falsy
Truthy(v) ==
    CASE v[1] = "none" -> FALSE
      [] v[1] = "int" -> v[2] # "0"
      [] v[1] = "str" -> v[2] # ""
      [] v[1] = "bool" -> v[2] = "True"

\* a or b
PyOr(a, b) == IF Truthy(a) THEN a ELSE b

\* f"{v}"
Format(v) == v[2]

(* A dict is the sequence of its <<key, value>> items in insertion order *)
HasKey(d, k) == \E i \in DOMAIN d : d[i][1] = k
Get(d, k) == d[CHOOSE i \in DOMAIN d : d[i][1] = k][2]
DictSet(d, k, v) ==
    IF HasKey(d, k)
    THEN [i \in DOMAIN d |-> IF d[i][1] = k THEN <<k, v>> ELSE d[i]]
    ELSE Append(d, <<k, v>>)
Keys(d) == {d[i][1] : i \in DOMAIN d}

-----------------------------------------------------------------------------
(* params.py *)

Built(p) == [err |-> "", params |-> p]
Raises(e) == [err |-> e, params |-> <<>>]

\* base_params with the operands of `or` exchanged
base_params_swapped(dl, lang) ==
    << <<"type", S("json")>>, <<"lang", PyOr(dl, lang)>> >>

base_params(dl, lang) ==
    << <<"type", S("json")>>, <<"lang", PyOr(lang, dl)>> >>

params_with_id_lang(dl, id, lang) ==
    DictSet(base_params(dl, lang), "id", id)

\* params_with_id_lang_active passing the flag through as it was given
params_with_id_lang_active_raw(dl, id, active, lang) ==
    LET params == params_with_id_lang(dl, id, lang)
    IN  IF active # None THEN DictSet(params, "active", active) ELSE params

params_with_id_lang_active(dl, id, active, lang) ==
    LET params == params_with_id_lang(dl, id, lang)
    IN  IF Truthy(active) THEN DictSet(params, "active", S("yes")) ELSE params

\* params_packaging with the language the other builders add
params_packaging_lang(id) == << <<"id", id>>, <<"type", S("json")>>, <<"lang", S("en")>> >>

params_packaging(id) == << <<"id", id>>, <<"type", S("json")>> >>

params_pharmaceuticalstd(id) == << <<"id", id>>, <<"type", S("json")>> >>

SetIfNotNone(d, k, v) == IF v # None THEN DictSet(d, k, v) ELSE d

\* params_drugproduct without the required-filter test
params_drugproduct_unchecked(dl, id, din, brandname, status, lang) ==
    Built(SetIfNotNone(SetIfNotNone(SetIfNotNone(SetIfNotNone(
        base_params(dl, lang), "id", id), "din", din),
        "brandname", brandname), "status", status))

params_drugproduct(dl, id, din, brandname, status, lang) ==
    IF ~(Truthy(id) \/ Truthy(din) \/ Truthy(brandname) \/ Truthy(status))
    THEN Raises("DPDInvalidParam")
    ELSE Built(SetIfNotNone(SetIfNotNone(SetIfNotNone(SetIfNotNone(
             base_params(dl, lang), "id", id), "din", din),
             "brandname", brandname), "status", status))

\* params_activeingredient testing truthiness, as params_drugproduct does
params_activeingredient_truthy(dl, id, ingredientname, lang) ==
    IF ~(Truthy(id) \/ Truthy(ingredientname))
    THEN Raises("DPDInvalidParam")
    ELSE Built(SetIfNotNone(SetIfNotNone(
             base_params(dl, lang), "id", id), "ingredientname", ingredientname))

params_activeingredient(dl, id, ingredientname, lang) ==
    IF id = None /\ ingredientname = None
    THEN Raises("DPDInvalidParam")
    ELSE Built(SetIfNotNone(SetIfNotNone(
             base_params(dl, lang), "id", id), "ingredientname", ingredientname))

-----------------------------------------------------------------------------
(* http.py: cache key, clock, outcome classification *)

\* Python's order on the parameter names the builders use (sorted() on str)
KeyRank(k) ==
    CASE k = "active" -> 1
      [] k = "brandname" -> 2
      [] k = "din" -> 3
      [] k = "id" -> 4
      [] k = "ingredientname" -> 5
      [] k = "lang" -> 6
      [] k = "status" -> 7
      [] k = "type" -> 8

RECURSIVE Insert(_, _)
Insert(sorted, k) ==
    IF sorted = <<>> THEN <<k>>
    ELSE IF KeyRank(k) < KeyRank(Head(sorted)) THEN <<k>> \o sorted
    ELSE <<Head(sorted)>> \o Insert(Tail(sorted), k)

RECURSIVE SortKeys(_)
\* sorted(params.keys())
SortKeys(ks) == IF ks = <<>> THEN <<>> ELSE Insert(SortKeys(Tail(ks)), Head(ks))

KeyList(d) == [i \in DOMAIN d |-> d[i][1]]

RECURSIVE Join(_, _)
\* sep.join(parts)
Join(sep, parts) ==
    IF parts = <<>> THEN ""
    ELSE IF Len(parts) = 1 THEN parts[1]
    ELSE parts[1] \o sep \o Join(sep, Tail(parts))

\* _cache_key without the sort: the keys in the order the mapping holds them
_cache_key_unsorted(url, params) ==
    IF params = <<>> THEN url
    ELSE LET ks == KeyList(params)
             parts == [i \in DOMAIN ks |-> ks[i] \o "=" \o Format(Get(params, ks[i]))]
         IN  url \o "?" \o Join("&", parts)

_cache_key(url, params) ==
    IF params = <<>> THEN url
    ELSE LET ks == SortKeys(KeyList(params))
             parts == [i \in DOMAIN ks |-> ks[i] \o "=" \o Format(Get(params, ks[i]))]
         IN  url \o "?" \o Join("&", parts)

BASE_URL == "https://health-products.canada.ca/api/drug/"

\* str(request.url): the client's base URL, the endpoint path and the query
\* string of the parameters in the order the mapping holds them
RequestUrl(url, params) ==
    LET parts == [i \in DOMAIN params |-> params[i][1] \o "=" \o Format(params[i][2])]
    IN  IF params = <<>> THEN BASE_URL \o url
        ELSE BASE_URL \o url \o "?" \o Join("&", parts)

\* HTTPClient.__init__: self._cache_ttl = float(cache_ttl) if cache_ttl else 0.0
\* (the argument is <<"none", 0>> for None and <<"num", n>> for the number n)
NoTtl == <<"none", 0>>
Ttl(n) == <<"num", n>>
InitCacheTtl(arg) == IF arg[1] = "none" \/ arg[2] = 0 THEN 0 ELSE arg[2]

_now(clock) == clock

(* What one network attempt ends in: a response or a transport exception *)
Resp(status, text) == [kind |-> "resp", status |-> status, text |-> text]
Exc(name) == [kind |-> "exc", status |-> 0, text |-> name]
NoExc == [kind |-> "none", status |-> 0, text |-> ""]

HTTPStatusError(resp) == [kind |-> "exc", status |-> resp.status, text |-> "HTTPStatusError"]

\* the tuple Retryable
Retryable == {"ConnectError", "ReadError", "RemoteProtocolError", "PoolTimeout"}

RetryStatus(status) == status = 429 \/ (500 =< status /\ status < 600)

\* _is_retryable_exception taking every exception for a retryable one
_is_retryable_exception_any(exc) == TRUE

_is_retryable_exception(exc) ==
    IF exc.text \in Retryable THEN TRUE
    ELSE IF exc.text = "HTTPStatusError" THEN RetryStatus(exc.status)
    ELSE FALSE

\* _do / the body of the async loop: what the attempt raises (NoExc: it
\* returns the response)
Raised(o) ==
    IF o.kind = "exc" THEN o
    ELSE IF RetryStatus(o.status) THEN HTTPStatusError(o)
    ELSE NoExc

\* the except clause of the async loop
\* the except clause catching whatever is raised
AsyncCaughtAll(exc) == TRUE

AsyncCaught(exc) == exc.text \in Retryable \cup {"HTTPStatusError"}

\* decoded JSON: null, numbers, strings and booleans as above, an object
\* (named by its text) and an array of values
Dict(text) == <<"dict", text>>
List(elems) == <<"list", elems>>
IsDict(v) == v[1] = "dict"
IsList(v) == v[1] = "list"

JsonObjects == {Dict("{}"), Dict("{\"drug_code\":1}")}
JsonElems == JsonObjects \cup {I("1"), None, List(<<>>)}
JsonArrays == UNION {[1..n -> JsonElems] : n \in 0..MaxLen}
JsonValues ==
    {None, I("1"), S("x"), PyTrue} \cup JsonObjects \cup {List(a) : a \in JsonArrays}

RECURSIVE Dumps(_)
\* the body text of a JSON value
Dumps(v) ==
    CASE v[1] = "none" -> "null"
      [] v[1] = "int" -> v[2]
      [] v[1] = "str" -> "\"" \o v[2] \o "\""
      [] v[1] = "bool" -> IF v = PyTrue THEN "true" ELSE "false"
      [] v[1] = "dict" -> v[2]
      [] v[1] = "list" -> "[" \o Join(",", [i \in DOMAIN v[2] |-> Dumps(v[2][i])]) \o "]"

\* resp.json(): the decoded value, or JSONDecodeError
JsonTexts == {Dumps(v) : v \in JsonValues}
JsonDecoded == [t \in JsonTexts |-> CHOOSE v \in JsonValues : Dumps(v) = t]
JsonValid(text) == text \in JsonTexts
JsonLoads(text) == JsonDecoded[text]

(* How a logical call ends *)
Returns(data) == [type |-> "return", status_code |-> 0, url |-> None, data |-> data]
DPDHTTPError(status, url) ==
    [type |-> "DPDHTTPError", status_code |-> status, url |-> url, data |-> None]
Error(type) == [type |-> type, status_code |-> 0, url |-> None, data |-> None]

\* the exceptions of attempts that are httpx.HTTPError (the RuntimeError of a
\* closed client is not)
HTTPErrors == Retryable \cup {"ReadTimeout", "HTTPStatusError"}

\* the except clauses of HTTPClient._request and the tail of
\* AsyncHTTPClient._request: the error made of the exception that ended the loop
TransportError(exc, url, params) ==
    IF exc.text = "HTTPStatusError"
    THEN DPDHTTPError(exc.status, S(RequestUrl(url, params)))
    ELSE IF exc.text \in HTTPErrors THEN DPDHTTPError(0 - 1, None)
    ELSE Error(exc.text)

-----------------------------------------------------------------------------
(* HTTPClient.get_json / AsyncHTTPClient.get_json: the cache *)

EmptyCache == [k \in {} |-> [expiry |-> 0, data |-> None]]

\* CacheHit without the freshness test
CacheHitAlways(ttl, cch, key, clock) ==
    /\ ttl # 0
    /\ key \in DOMAIN cch

\* CacheHit with the freshness test off by one (expiry > now)
CacheHitStrict(ttl, cch, key, clock) ==
    /\ ttl # 0
    /\ key \in DOMAIN cch
    /\ cch[key].expiry > _now(clock)

\* hit = self._cache.get(key); if hit and hit[0] >= _now(): return hit[1]
CacheHit(ttl, cch, key, clock) ==
    /\ ttl # 0
    /\ key \in DOMAIN cch
    /\ cch[key].expiry >= _now(clock)

\* the lookup pushing the expiry of the entry it serves to now + TTL
CacheGetRefreshing(ttl, cch, key, clock) ==
    IF CacheHit(ttl, cch, key, clock)
    THEN [cch EXCEPT ![key].expiry = _now(clock) + ttl]
    ELSE cch

\* hit = self._cache.get(key): what the lookup leaves of the cache (dict.get
\* reads the mapping, the return of hit[1] writes nothing)
CacheGet(ttl, cch, key, clock) == cch

\* the store keeping an entry the key already has
CacheStoreFirstWins(ttl, cch, key, clock, data) ==
    IF ttl # 0 /\ key \notin DOMAIN cch
    THEN [k \in DOMAIN cch \cup {key} |->
            IF k = key THEN [expiry |-> _now(clock) + ttl, data |-> data] ELSE cch[k]]
    ELSE cch

\* the store without its test of the TTL
CacheStoreAlways(ttl, cch, key, clock, data) ==
    [k \in DOMAIN cch \cup {key} |->
        IF k = key THEN [expiry |-> _now(clock) + ttl, data |-> data] ELSE cch[k]]

\* the store keeping the expiry of an entry the key already has
CacheStoreKeepsExpiry(ttl, cch, key, clock, data) ==
    IF ttl # 0
    THEN [k \in DOMAIN cch \cup {key} |->
            IF k = key
            THEN [expiry |-> IF key \in DOMAIN cch THEN cch[key].expiry
                             ELSE _now(clock) + ttl,
                  data |-> data]
            ELSE cch[k]]
    ELSE cch

\* the store dropping, as it stores, every entry that has expired
CacheStoreEvicting(ttl, cch, key, clock, data) ==
    IF ttl # 0
    THEN [k \in {j \in DOMAIN cch : cch[j].expiry >= _now(clock)} \cup {key} |->
            IF k = key THEN [expiry |-> _now(clock) + ttl, data |-> data] ELSE cch[k]]
    ELSE cch

\* if self._cache_ttl: self._cache[key] = (_now() + self._cache_ttl, data)
CacheStore(ttl, cch, key, clock, data) ==
    IF ttl # 0
    THEN [k \in DOMAIN cch \cup {key} |->
            IF k = key THEN [expiry |-> _now(clock) + ttl, data |-> data] ELSE cch[k]]
    ELSE cch

\* ResponseResult with the client-error test missing its lower end (400 < status)
ResponseResultAbove400(resp, url, params) ==
    IF 400 < resp.status /\ resp.status < 500
    THEN DPDHTTPError(resp.status, S(RequestUrl(url, params)))
    ELSE IF JsonValid(resp.text) THEN Returns(JsonLoads(resp.text))
    ELSE Error("DPDDecodeError")

\* ResponseResult swallowing the decode failure into an empty result
ResponseResultEmpty(resp, url, params) ==
    IF 400 =< resp.status /\ resp.status < 500
    THEN DPDHTTPError(resp.status, S(RequestUrl(url, params)))
    ELSE IF JsonValid(resp.text) THEN Returns(JsonLoads(resp.text))
    ELSE Returns(List(<<>>))

\* get_json after _request has returned a response
ResponseResult(resp, url, params) ==
    IF 400 =< resp.status /\ resp.status < 500
    THEN DPDHTTPError(resp.status, S(RequestUrl(url, params)))
    ELSE IF JsonValid(resp.text) THEN Returns(JsonLoads(resp.text))
    ELSE Error("DPDDecodeError")

\* stop_after_attempt stopping one attempt too late
StopAfterAttemptLate(attempt_number, limit) == attempt_number > limit

\* StopAfterAttempt giving up one attempt early
StopAfterAttemptEarly(attempt_number, limit) == attempt_number + 1 >= limit

\* stop_after_attempt(self.max_retries)
StopAfterAttempt(attempt_number, limit) == attempt_number >= limit

\* tenacity around _do: retry when the predicate holds and the stop does not
SyncRetries(exc, attempt_number, limit) ==
    _is_retryable_exception(exc) /\ ~StopAfterAttempt(attempt_number, limit)

(* The backoff delays, in tenths of a second *)

Min(a, b) == IF a <= b THEN a ELSE b

Initial == 5           \* wait_exponential_jitter(initial=0.5, ...)
MaxDelay == 40         \* wait_exponential_jitter(..., max=4); min(4.0, ...)

\* the random part of a blocking delay: random.uniform(0, 1), at its ends
\* and in the middle
Jitters == {0, 5, 10}

\* wait_exponential_jitter without its ceiling
wait_exponential_jitter_unbounded(attempt_number, jitter) ==
    Initial * 2 ^ (attempt_number - 1) + jitter

\* tenacity's wait after attempt attempt_number:
\* min(initial * 2 ** (attempt_number - 1) + jitter, max)
wait_exponential_jitter(attempt_number, jitter) ==
    Min(Initial * 2 ^ (attempt_number - 1) + jitter, MaxDelay)

\* sleep_for = min(4.0, (2 ** (attempts - 1)) + (0.1 * attempts))
sleep_for(attempts) == Min(MaxDelay, 10 * 2 ^ (attempts - 1) + attempts)

\* last_exc = exc, with the first exception kept instead
CaughtFirst(last_exc, exc) == IF last_exc = NoExc THEN exc ELSE last_exc

\* last_exc = exc
Caught(last_exc, exc) == exc

\* the loop test of a loop that never ends
AsyncLoopsForever(attempts, limit) == TRUE

\* while attempts < self.max_retries
AsyncLoops(attempts, limit) == attempts < limit

-----------------------------------------------------------------------------
(* The logical calls *)

\* the keyword arguments of a resource method (None: not passed)
Args(id, din, brandname, status, ingredientname, active, lang) ==
    [id |-> id, din |-> din, brandname |-> brandname, status |-> status,
     ingredientname |-> ingredientname, active |-> active, lang |-> lang]
NoArgs == Args(None, None, None, None, None, None, None)

(* client.py: the shape of a payload *)

RECURSIVE DictItems(_)
\* [x for x in data if isinstance(x, Dict)]
DictItems(xs) ==
    IF xs = <<>> THEN <<>>
    ELSE IF IsDict(Head(xs)) THEN <<Head(xs)>> \o DictItems(Tail(xs))
    ELSE DictItems(Tail(xs))

\* _normalize_list keeping every element of an array
_normalize_list_unfiltered(data) ==
    IF data = None THEN <<>>
    ELSE IF IsList(data) THEN data[2]
    ELSE IF IsDict(data) THEN <<data>>
    ELSE <<>>

_normalize_list(data) ==
    IF data = None THEN <<>>
    ELSE IF IsList(data) THEN DictItems(data[2])
    ELSE IF IsDict(data) THEN <<data>>
    ELSE <<>>

\* hit = self._cache.get(key) when the key has no entry, or caching is off
NoHit == [expiry |-> -1, data |-> None]

IdleCall ==
    [pc |-> "idle", op |-> "", url |-> "", params |-> <<>>, key |-> "",
     attempts |-> 0, net |-> 0, sleeps |-> 0, last_exc |-> NoExc,
     fails |-> 0, last |-> NoExc, t_start |-> 0, reads |-> 0, keyed |-> 0,
     args |-> NoArgs, after_close |-> FALSE, delay |-> 0, hit |-> NoHit]

InFlight(s) == calls[s].pc # "idle"

\* a finished call: what it was, how it ended and what it did on the way
\* (normalized: what a resource method made of the payload get_json returned)
Summary(c, result, writes) ==
    [op |-> c.op, url |-> c.url, params |-> c.params, key |-> c.key,
     result |-> result, net |-> c.net, sleeps |-> c.sleeps,
     fails |-> c.fails, last |-> c.last, t_start |-> c.t_start, t_end |-> now,
     reads |-> c.reads, writes |-> writes, keyed |-> c.keyed, args |-> c.args,
     after_close |-> c.after_close, hit |-> c.hit,
     normalized |-> IF result.type = "return" /\ c.op # "get_json"
                    THEN _normalize_list(result.data) ELSE <<>>]

LastTwo(h) == IF Len(h) > 2 THEN Tail(h) ELSE h

\* the call in slot s returns or raises
Finish(s, c, result, writes) ==
    /\ calls' = [calls EXCEPT ![s] = IdleCall]
    /\ hist' = LastTwo(Append(hist, Summary(c, result, writes)))

\* a blocking client runs one call at a time; slots are taken lowest first
CanStart(s) ==
    /\ ~InFlight(s)
    /\ started < MaxCalls
    /\ \A t \in Slots : t < s => InFlight(t)
    /\ variant = "sync" => \A t \in Slots : ~InFlight(t)

\* a response came back from _request: the rest of get_json
Respond(s, c, resp) ==
    LET result == ResponseResult(resp, c.url, c.params)
    IN  IF result.type = "return"
        THEN /\ cache' = CacheStore(cache_ttl, cache, c.key, now, result.data)
             /\ Finish(s, c, result, IF cache_ttl # 0 THEN 1 ELSE 0)
        ELSE /\ cache' = cache
             /\ Finish(s, c, result, 0)

\* get_json up to the first network attempt
get_json(s, op, url, args, params) ==
    LET key == _cache_key(url, params)
        c == [IdleCall EXCEPT !.op = op, !.args = args, !.url = url, !.params = params, !.key = key,
                              !.t_start = now, !.keyed = 1, !.after_close = closed,
                              !.reads = IF cache_ttl # 0 THEN 1 ELSE 0,
                              !.hit = IF cache_ttl # 0 /\ key \in DOMAIN cache
                                      THEN cache[key] ELSE NoHit]
    IN  /\ cache' = CacheGet(cache_ttl, cache, key, now)
        /\ IF CacheHit(cache_ttl, cache, key, now)
           THEN Finish(s, c, Returns(cache[key].data), 0)
           ELSE IF variant = "async" /\ ~AsyncLoops(0, max_retries)
           THEN Finish(s, c, Error("AssertionError"), 0)
           ELSE /\ calls' = [calls EXCEPT ![s] = [c EXCEPT !.pc = "attempt", !.net = 1]]
                /\ hist' = hist

\* a resource method of the facade: build the parameters, then get_json
Facade(s, op, url, args, b) ==
    /\ CanStart(s)
    /\ started' = started + 1
    /\ IF b.err # ""
       THEN /\ Finish(s, [IdleCall EXCEPT !.op = op, !.url = url, !.args = args,
                                          !.t_start = now, !.after_close = closed],
                      Error(b.err), 0)
            /\ cache' = cache
       ELSE get_json(s, op, url, args, b.params)
    /\ UNCHANGED <<variant, max_retries, ttl_arg, cache_ttl, lang_arg, default_lang, closed, now>>

\* HTTPClient.get_json / AsyncHTTPClient.get_json called with a path and a
\* mapping of the caller's own making
http_get_json(s, url, params) ==
    /\ CanStart(s)
    /\ started' = started + 1
    /\ get_json(s, "get_json", url, NoArgs, params)
    /\ UNCHANGED <<variant, max_retries, ttl_arg, cache_ttl, lang_arg, default_lang, closed, now>>

-----------------------------------------------------------------------------
(* client.py: the resource methods of DPDClient / AsyncDPDClient *)

drug_product(s, id, din, brandname, status, lang) ==
    Facade(s, "drug_product", "drugproduct/",
           Args(id, din, brandname, status, None, None, lang),
           params_drugproduct(default_lang, id, din, brandname, status, lang))

company(s, id, lang) ==
    Facade(s, "company", "company/", Args(id, None, None, None, None, None, lang),
           Built(params_with_id_lang(default_lang, id, lang)))

active_ingredient(s, id, ingredientname, lang) ==
    Facade(s, "active_ingredient", "activeingredient/",
           Args(id, None, None, None, ingredientname, None, lang),
           params_activeingredient(default_lang, id, ingredientname, lang))

form(s, id, active, lang) ==
    Facade(s, "form", "form/", Args(id, None, None, None, None, active, lang),
           Built(params_with_id_lang_active(default_lang, id, active, lang)))

packaging(s, id) ==
    Facade(s, "packaging", "packaging/", Args(id, None, None, None, None, None, None),
           Built(params_packaging(id)))

pharmaceutical_std(s, id) ==
    Facade(s, "pharmaceutical_std", "pharmaceuticalstd/",
           Args(id, None, None, None, None, None, None),
           Built(params_pharmaceuticalstd(id)))

route(s, id, active, lang) ==
    Facade(s, "route", "route/", Args(id, None, None, None, None, active, lang),
           Built(params_with_id_lang_active(default_lang, id, active, lang)))

schedule(s, id, active, lang) ==
    Facade(s, "schedule", "schedule/", Args(id, None, None, None, None, active, lang),
           Built(params_with_id_lang_active(default_lang, id, active, lang)))

status(s, id, lang) ==
    Facade(s, "status", "status/", Args(id, None, None, None, None, None, lang),
           Built(params_with_id_lang(default_lang, id, lang)))

therapeutic_class(s, id, lang) ==
    Facade(s, "therapeutic_class", "therapeuticclass/",
           Args(id, None, None, None, None, None, lang),
           Built(params_with_id_lang(default_lang, id, lang)))

veterinary_species(s, id, lang) ==
    Facade(s, "veterinary_species", "veterinaryspecies/",
           Args(id, None, None, None, None, None, lang),
           Built(params_with_id_lang(default_lang, id, lang)))

-----------------------------------------------------------------------------
(* http.py: the retry loops, one step per network attempt and per backoff *)

\* the outcomes of its attempts a call has seen: the last one, and how many
\* were failures of the retryable kind
RetryableOutcome(o) ==
    \/ o.kind = "exc" /\ o.text \in {"ConnectError", "ReadError", "RemoteProtocolError",
                                     "PoolTimeout"}
    \/ o.kind = "resp" /\ (o.status = 429 \/ o.status \in 500..599)
Seen(c, o) ==
    [c EXCEPT !.last = o, !.fails = IF RetryableOutcome(o) THEN @ + 1 ELSE @]

Config == <<variant, max_retries, ttl_arg, cache_ttl, lang_arg, default_lang>>

\* HTTPClient._request: the attempt of the call in slot s ends in outcome o
SyncAttempt(s, o) ==
    LET c == Seen(calls[s], o)
        exc == Raised(o)
    IN  /\ variant = "sync"
        /\ calls[s].pc = "attempt"
        /\ IF exc = NoExc
           THEN Respond(s, c, o)
           ELSE /\ cache' = cache
                /\ IF SyncRetries(exc, c.net, max_retries)
                   THEN /\ \E jitter \in Jitters :
                             calls' = [calls EXCEPT ![s] =
                               [c EXCEPT !.pc = "sleep", !.last_exc = exc,
                                         !.attempts = @ + 1,
                                         !.delay = wait_exponential_jitter(c.net, jitter)]]
                        /\ hist' = hist
                   ELSE Finish(s, [c EXCEPT !.last_exc = exc],
                               TransportError(exc, c.url, c.params), 0)
        /\ UNCHANGED <<Config, closed, now, started>>

\* HTTPClient._request: the wait before the retry is over, the next attempt starts
SyncSleep(s) ==
    /\ variant = "sync"
    /\ calls[s].pc = "sleep"
    /\ calls' = [calls EXCEPT ![s].pc = "attempt", ![s].sleeps = @ + 1, ![s].net = @ + 1]
    /\ UNCHANGED <<Config, closed, cache, now, started, hist>>

\* AsyncHTTPClient._request: the awaited attempt of the call in slot s ends in o
AsyncAttempt(s, o) ==
    LET c == Seen(calls[s], o)
        exc == Raised(o)
    IN  /\ variant = "async"
        /\ calls[s].pc = "attempt"
        /\ IF exc = NoExc
           THEN Respond(s, c, o)
           ELSE /\ cache' = cache
                /\ IF AsyncCaught(exc)
                   THEN /\ calls' = [calls EXCEPT ![s] =
                               [c EXCEPT !.pc = "sleep", !.last_exc = Caught(@, exc),
                                         !.attempts = @ + 1,
                                         !.delay = sleep_for(c.attempts + 1)]]
                        /\ hist' = hist
                   ELSE Finish(s, c, Error(exc.text), 0)
        /\ UNCHANGED <<Config, closed, now, started>>

\* AsyncHTTPClient._request: the awaited sleep is over, the loop test runs
AsyncSleep(s) ==
    LET c == [calls[s] EXCEPT !.sleeps = @ + 1]
    IN  /\ variant = "async"
        /\ calls[s].pc = "sleep"
        /\ IF AsyncLoops(c.attempts, max_retries)
           THEN /\ calls' = [calls EXCEPT ![s] = [c EXCEPT !.pc = "attempt", !.net = @ + 1]]
                /\ hist' = hist
           ELSE Finish(s, c, TransportError(c.last_exc, c.url, c.params), 0)
        /\ UNCHANGED <<Config, closed, cache, now, started>>

\* the task awaiting the call in slot s is cancelled: the await it is
\* suspended in raises CancelledError
Cancelled == Exc("CancelledError")

\* ... in `await self._client.get`, inside the try block
CancelAttempt(s) == AsyncAttempt(s, Cancelled)

\* ... in `await _async_sleep`, inside the except clause, where no handler
\* is in force
CancelSleep(s) ==
    /\ variant = "async"
    /\ calls[s].pc = "sleep"
    /\ Finish(s, calls[s], Error(Cancelled.text), 0)
    /\ UNCHANGED <<Config, closed, cache, now, started>>

\* DPDClient.close / AsyncDPDClient.aclose, between calls: the httpx client
\* is closed, nothing else of the client changes
close ==
    /\ ~closed
    /\ \A s \in Slots : ~InFlight(s)
    /\ closed' = TRUE
    /\ UNCHANGED <<Config, cache, now, calls, started, hist>>

\* time passes (while the client is in use)
Tick ==
    /\ now < MaxTime
    /\ started < MaxCalls \/ \E s \in Slots : InFlight(s)
    /\ now' = now + 1
    /\ UNCHANGED <<Config, closed, cache, calls, started, hist>>

-----------------------------------------------------------------------------
(* The client's configuration; the requests and the outcomes of attempts *)

Langs == {S("en"), S("fr")}
TtlArgs == {NoTtl} \cup {Ttl(n) : n \in 0..MaxTtl}

Outcomes ==
    {Resp(200, "[]"), Resp(200, "{}"), Resp(200, "not-json"), Resp(301, "moved"),
     Resp(301, "[]"),
     Resp(400, "bad"), Resp(404, "missing"), Resp(499, "closed"), Resp(429, "slow"),
     Resp(500, "err1"), Resp(502, "err2"), Resp(599, "err3"),
     Exc("ConnectError"), Exc("ReadError"), Exc("RemoteProtocolError"),
     Exc("PoolTimeout"), Exc("ReadTimeout")}

\* the constructors, for the cache_ttl arguments ttls
ConstructWith(langs, budgets, ttls) ==
    /\ variant \in {"sync", "async"}
    /\ max_retries \in budgets
    /\ ttl_arg \in ttls
    /\ cache_ttl = InitCacheTtl(ttl_arg)
    /\ lang_arg \in langs
    /\ default_lang = lang_arg
    /\ closed = FALSE
    /\ cache = EmptyCache
    /\ now = 0
    /\ calls = [s \in Slots |-> IdleCall]
    /\ started = 0
    /\ hist = <<>>

Construct(langs, budgets) == ConstructWith(langs, budgets, TtlArgs)

-----------------------------------------------------------------------------
(* Spec: calls made one after the other on one client, with its cache *)

\* (every retry budget and every outcome of an attempt are SpecRetry's)
CacheOutcomes == {Resp(200, "[]"), Resp(200, "{}"), Resp(500, "err1")}
CacheBudgets == {0, 1, 2}

Init == Construct({S("en")}, CacheBudgets)

Next ==
    \/ \E din \in {None, S("02")} : drug_product(1, None, din, None, None, None)
    \/ packaging(1, I("5"))
    \/ \E o \in CacheOutcomes : SyncAttempt(1, o)
    \/ SyncSleep(1)
    \/ \E o \in CacheOutcomes : AsyncAttempt(1, o)
    \/ AsyncSleep(1)
    \/ Tick

Spec == Init /\ [][Next]_vars

\* the same, on a client constructed with a retry budget of at least one attempt
InitBudgeted == Construct({S("en")}, CacheBudgets \ {0})

SpecBudgeted == InitBudgeted /\ [][Next]_vars

-----------------------------------------------------------------------------
(* SpecRetry: one call, every retry budget, every outcome of every attempt *)

First == started = 0

InitRetry == Construct({S("en")}, 0..MaxRetriesCfg)

NextRetry ==
    \/ First /\ drug_product(1, None, S("02"), None, None, None)
    \/ \E o \in Outcomes : SyncAttempt(1, o)
    \/ SyncSleep(1)
    \/ \E o \in Outcomes : AsyncAttempt(1, o)
    \/ AsyncSleep(1)
    \/ Tick

SpecRetry == InitRetry /\ [][NextRetry]_vars

-----------------------------------------------------------------------------
(* SpecFacade: one call of any resource method with any arguments *)

Ids == {I("0"), I("5")}
OptIds == {None} \cup Ids
Dins == {None, S(""), S("02")}
Brands == {None, S("A")}
StatusCodes == {None, S("2")}
Names == {None, S(""), S("x")}
Actives == {None, PyTrue, PyFalse}
LangArgs == {None, S(""), S("fr")}

FacadeOutcomes == {Resp(200, "[]"), Resp(500, "err1")}

InitFacade == Construct(Langs, CacheBudgets)

NextFacade ==
    \/ \E id \in OptIds, din \in Dins, brandname \in Brands, st \in StatusCodes,
          lang \in LangArgs : First /\ drug_product(1, id, din, brandname, st, lang)
    \/ \E id \in Ids, lang \in LangArgs : First /\ company(1, id, lang)
    \/ \E id \in OptIds, name \in Names, lang \in LangArgs :
          First /\ active_ingredient(1, id, name, lang)
    \/ \E id \in Ids, active \in Actives, lang \in LangArgs :
          First /\ form(1, id, active, lang)
    \/ \E id \in Ids : First /\ packaging(1, id)
    \/ \E id \in Ids : First /\ pharmaceutical_std(1, id)
    \/ \E id \in Ids, active \in Actives, lang \in LangArgs :
          First /\ route(1, id, active, lang)
    \/ \E id \in Ids, active \in Actives, lang \in LangArgs :
          First /\ schedule(1, id, active, lang)
    \/ \E id \in Ids, lang \in LangArgs : First /\ status(1, id, lang)
    \/ \E id \in Ids, lang \in LangArgs : First /\ therapeutic_class(1, id, lang)
    \/ \E id \in Ids, lang \in LangArgs : First /\ veterinary_species(1, id, lang)
    \/ \E o \in FacadeOutcomes : SyncAttempt(1, o)
    \/ SyncSleep(1)
    \/ \E o \in FacadeOutcomes : AsyncAttempt(1, o)
    \/ AsyncSleep(1)

SpecFacade == InitFacade /\ [][NextFacade]_vars

-----------------------------------------------------------------------------
(* Properties *)

Finished == {hist[i] : i \in DOMAIN hist}

\* two finished calls to get_json with the same endpoint and the same parameters
Identical(h1, h2) ==
    /\ h1.keyed = 1 /\ h2.keyed = 1
    /\ h1.url = h2.url
    /\ h1.params = h2.params

\* the last two calls were made one after the other and were identical
TwoIdentical == Len(hist) = 2 /\ Identical(hist[1], hist[2])

\* C1 as stated: with caching enabled (cache_ttl > 0), two successive identical
\* calls to get_json issue exactly one network request in total, the second
\* call being served from the cache.
C1_AsStated ==
    (cache_ttl > 0 /\ TwoIdentical) =>
        /\ hist[1].net + hist[2].net = 1
        /\ hist[2].net = 0

\* C1 amended: with caching enabled (cache_ttl > 0), when the first of two
\* successive identical calls returns a payload after exactly one network
\* attempt and the second call starts no later than cache_ttl after the first
\* returned, the second call is served from the cache: it issues no network
\* request and returns the payload of the first, so that the two calls issue
\* exactly one network request in total.
C1_CachedSecondCall ==
    (/\ cache_ttl > 0
     /\ TwoIdentical
     /\ hist[1].result.type = "return"
     /\ hist[1].net = 1
     /\ hist[2].t_start =< hist[1].t_end + cache_ttl) =>
        /\ hist[2].net = 0
        /\ hist[1].net + hist[2].net = 1
        /\ hist[2].result = hist[1].result

\* C1 witness: the second of two identical calls, made exactly cache_ttl after
\* the first fetched its payload, has returned without a network request
C1_Witness ==
    /\ cache_ttl > 0
    /\ TwoIdentical
    /\ hist[1].result.type = "return"
    /\ hist[1].net = 1
    /\ hist[2].t_start = hist[1].t_end + cache_ttl
    /\ hist[2].net = 0
    /\ hist[2].result = hist[1].result

\* C2: with caching disabled (cache_ttl None or 0), every call to get_json
\* issues at least one network request, whatever calls preceded it.
C2_AlwaysFetches ==
    (ttl_arg = NoTtl \/ ttl_arg = Ttl(0)) =>
        \A h \in Finished : h.keyed = 1 => h.net >= 1


-----------------------------------------------------------------------------
(* Properties of one logical call (SpecRetry) *)

ClientError(o) == o.kind = "resp" /\ o.status \in 400..499 /\ o.status # 429
GoodResponse(o) == o.kind = "resp" /\ o.status = 200 /\ o.text \in {"[]", "{}"}
BadBody(o) == o.kind = "resp" /\ o.status = 200 /\ o.text = "not-json"

\* the payload the body of a good response stands for
Payload(text) == IF text = "[]" THEN List(<<>>) ELSE Dict("{}")

\* C3: for every retry budget N >= 1 and every k < N, when the first k attempts
\* of a call end in retryable failures and attempt k+1 returns 200 with valid
\* JSON, the call returns the decoded payload after exactly k+1 attempts. A
\* call is not given up while all its attempts failed retryably and fewer
\* than N were made; the good response ends the call with its payload.
C3_RetryThenSuccess ==
    max_retries >= 1 =>
        /\ \A h \in Finished :
              /\ (h.net >= 1 /\ h.fails = h.net) => h.net >= max_retries
              /\ (GoodResponse(h.last) /\ h.fails < max_retries) =>
                    /\ h.result = Returns(Payload(h.last.text))
                    /\ h.net = h.fails + 1
        /\ \A s \in Slots : InFlight(s) => ~GoodResponse(calls[s].last)

\* C3 witness: budget 3, two retryable failures, then the payload on the third attempt
C3_Witness ==
    /\ max_retries = 3
    /\ Len(hist) = 1
    /\ hist[1].fails = 2
    /\ hist[1].net = 3
    /\ hist[1].last = Resp(200, "[]")
    /\ hist[1].result = Returns(List(<<>>))

\* C4: a response with a status in 400..499 other than 429 ends the call
\* there, without retry or backoff (one attempt when it is the first response),
\* with DPDHTTPError carrying the response's status and the resolved request
\* URL, in the blocking and in the async client and for every retry budget.
C4_ClientErrorTerminal ==
    /\ \A h \in Finished :
          ClientError(h.last) =>
              /\ h.result = DPDHTTPError(h.last.status, S(RequestUrl(h.url, h.params)))
              /\ h.net = h.fails + 1
              /\ h.sleeps = h.fails
              /\ h.fails = 0 => (h.net = 1 /\ h.sleeps = 0)
    /\ \A s \in Slots : InFlight(s) => ~ClientError(calls[s].last)

\* C4 witness: the async client, budget 3, a 404 as first response
C4_Witness ==
    /\ variant = "async"
    /\ max_retries = 3
    /\ Len(hist) = 1
    /\ hist[1].last = Resp(404, "missing")
    /\ hist[1].net = 1
    /\ hist[1].result.type = "DPDHTTPError"
    /\ hist[1].result.status_code = 404

\* C5: a 200 response whose body is not valid JSON makes the call fail with
\* DPDDecodeError, never with a result, and ends the call at that attempt (one
\* attempt when it is the first response); nothing is stored in the cache.
C5_DecodeError ==
    /\ \A h \in Finished :
          BadBody(h.last) =>
              /\ h.result = Error("DPDDecodeError")
              /\ h.net = h.fails + 1
              /\ h.fails = 0 => h.net = 1
              /\ h.writes = 0
    /\ \A s \in Slots : InFlight(s) => ~BadBody(calls[s].last)
    /\ (\E h \in Finished : BadBody(h.last)) /\ started = 1 => cache = EmptyCache

\* C5 witness: a call that ended in DPDDecodeError on its only attempt, caching enabled
C5_Witness ==
    /\ cache_ttl > 0
    /\ Len(hist) = 1
    /\ hist[1].last = Resp(200, "not-json")
    /\ hist[1].net = 1
    /\ hist[1].result.type = "DPDDecodeError"

-----------------------------------------------------------------------------
(* Properties of the parameter builders behind the resource methods (SpecFacade) *)

Has(h, k, v) == HasKey(h.params, k) /\ Get(h.params, k) = v
Supplied(v) == v # None
NoFilter(a) ==
    ~Supplied(a.id) /\ ~Supplied(a.din) /\ ~Supplied(a.brandname) /\ ~Supplied(a.status)

\* C6: a drug-product call with none of id, din, brandname, status set fails
\* with DPDInvalidParam before any network attempt and before the cache key
\* is computed or the cache is read or written.
C6_DrugProductNeedsFilter ==
    \A h \in Finished :
        (h.op = "drug_product" /\ NoFilter(h.args)) =>
            /\ h.result = Error("DPDInvalidParam")
            /\ h.net = 0
            /\ h.keyed = 0 /\ h.reads = 0 /\ h.writes = 0

\* C6 witness: such a call, with a language override, on a caching client
C6_Witness ==
    /\ cache_ttl > 0
    /\ Len(hist) = 1
    /\ hist[1].op = "drug_product"
    /\ NoFilter(hist[1].args)
    /\ hist[1].args.lang = S("fr")
    /\ hist[1].result.type = "DPDInvalidParam"

\* C7: a drug-product call in which at least one of id, din, brandname, status
\* is supplied (not None, whatever its value, 0 and "" included) does not fail
\* with DPDInvalidParam, and its mapping holds every supplied filter unchanged,
\* plus type=json and lang.
C7_SuppliedFilterAccepted ==
    \A h \in Finished :
        (h.op = "drug_product" /\ ~NoFilter(h.args)) =>
            /\ h.result.type # "DPDInvalidParam"
            /\ Supplied(h.args.id) => Has(h, "id", h.args.id)
            /\ Supplied(h.args.din) => Has(h, "din", h.args.din)
            /\ Supplied(h.args.brandname) => Has(h, "brandname", h.args.brandname)
            /\ Supplied(h.args.status) => Has(h, "status", h.args.status)
            /\ Has(h, "type", S("json"))
            /\ HasKey(h.params, "lang")

\* C8: an active-ingredient call with neither id nor ingredientname set fails
\* with DPDInvalidParam and makes no network attempt; with at least one of
\* them supplied the mapping holds each supplied filter, type=json and lang.
C8_ActiveIngredient ==
    \A h \in Finished :
        h.op = "active_ingredient" =>
            IF ~Supplied(h.args.id) /\ ~Supplied(h.args.ingredientname)
            THEN h.result = Error("DPDInvalidParam") /\ h.net = 0
            ELSE /\ h.result.type # "DPDInvalidParam"
                 /\ Supplied(h.args.id) => Has(h, "id", h.args.id)
                 /\ Supplied(h.args.ingredientname) =>
                        Has(h, "ingredientname", h.args.ingredientname)
                 /\ Has(h, "type", S("json"))
                 /\ HasKey(h.params, "lang")

\* C8 witness: id = 0 and ingredientname = "" are supplied and are sent
C8_Witness ==
    /\ Len(hist) = 1
    /\ hist[1].op = "active_ingredient"
    /\ hist[1].args.id = I("0")
    /\ hist[1].args.ingredientname = S("")
    /\ Has(hist[1], "id", I("0"))
    /\ Has(hist[1], "ingredientname", S(""))
    /\ hist[1].net >= 1

\* C9: in form, route and schedule lookups active=True gives the parameter
\* active with the string value "yes"; active=False and active omitted give a
\* mapping with no active key; the mapping never holds a boolean.
C9_ActiveYes ==
    \A h \in Finished :
        h.op \in {"form", "route", "schedule"} =>
            /\ h.args.active = PyTrue => Has(h, "active", S("yes"))
            /\ h.args.active \in {PyFalse, None} => ~HasKey(h.params, "active")
            /\ \A i \in DOMAIN h.params : h.params[i][2][1] # "bool"

\* C9 witness: a route lookup with active=True that went out with active=yes
C9_Witness ==
    /\ Len(hist) = 1
    /\ hist[1].op = "route"
    /\ hist[1].args.active = PyTrue
    /\ Has(hist[1], "active", S("yes"))
    /\ hist[1].net >= 1

\* C10: packaging and pharmaceutical-standard lookups send exactly id and
\* type=json, never lang, whatever the client's default language; every other
\* lookup that reaches get_json sends type=json and a lang parameter.
C10_LangParameter ==
    \A h \in Finished :
        h.keyed = 1 =>
            IF h.op \in {"packaging", "pharmaceutical_std"}
            THEN /\ Keys(h.params) = {"id", "type"}
                 /\ Len(h.params) = 2
                 /\ Has(h, "id", h.args.id)
                 /\ Has(h, "type", S("json"))
            ELSE Has(h, "type", S("json")) /\ HasKey(h.params, "lang")

\* C10 witness: a packaging lookup on a client whose default language is French
C10_Witness ==
    /\ default_lang = S("fr")
    /\ Len(hist) = 1
    /\ hist[1].op = "packaging"
    /\ hist[1].net >= 1
    /\ ~HasKey(hist[1].params, "lang")


TakesLang(h) == h.keyed = 1 /\ h.op \notin {"packaging", "pharmaceutical_std"}

-----------------------------------------------------------------------------
(* SpecKey: get_json called with mappings built in every insertion order *)

KeyPairs == {<<"id", I("5")>>, <<"lang", S("en")>>, <<"type", S("json")>>}
KeyUrls == {"company/", "status/"}

\* every insertion order of the pairs ps
Orders(ps) ==
    {q \in [1..Cardinality(ps) -> ps] : \A i, j \in DOMAIN q : i # j => q[i] # q[j]}
Mappings == UNION {Orders(ps) : ps \in SUBSET KeyPairs}

InitKey == Construct({S("en")}, {1})

NextKey ==
    \/ \E url \in KeyUrls, params \in Mappings : http_get_json(1, url, params)
    \/ SyncAttempt(1, Resp(200, "{}"))
    \/ AsyncAttempt(1, Resp(200, "{}"))

SpecKey == InitKey /\ [][NextKey]_vars

\* the two mappings hold the same key/value pairs
SamePairs(p, q) == {p[i] : i \in DOMAIN p} = {q[i] : i \in DOMAIN q}

\* C12: two calls to the same endpoint whose mappings hold the same key/value
\* pairs, in whatever insertion orders, have the same cache key, and it is
\* the key of every other insertion order of those pairs too.
C12_KeyOrderIndependent ==
    /\ \A h1, h2 \in Finished :
          h1.url = h2.url /\ SamePairs(h1.params, h2.params) => h1.key = h2.key
    /\ \A h \in Finished : \A q \in Mappings :
          SamePairs(h.params, q) => _cache_key(h.url, q) = h.key

\* C12 witness: {lang: "en", id: 5} after {id: 5, lang: "en"} on a caching
\* client had the same key and was served from the first call's entry
C12_Witness ==
    /\ Len(hist) = 2
    /\ hist[1].url = "company/"
    /\ hist[2].url = "company/"
    /\ hist[1].params = << <<"id", I("5")>>, <<"lang", S("en")>> >>
    /\ hist[2].params = << <<"lang", S("en")>>, <<"id", I("5")>> >>
    /\ hist[1].key = "company/?id=5&lang=en"
    /\ hist[2].key = hist[1].key
    /\ hist[1].net = 1
    /\ hist[2].net = 0

-----------------------------------------------------------------------------
(* SpecShape: one lookup, answered with a JSON body of any shape *)

InitShape == Construct({S("en")}, {1})

NextShape ==
    \/ First /\ company(1, I("5"), None)
    \/ \E t \in JsonTexts : SyncAttempt(1, Resp(200, t))
    \/ \E t \in JsonTexts : AsyncAttempt(1, Resp(200, t))

SpecShape == InitShape /\ [][NextShape]_vars

\* C13: of the decoded payload of a lookup, null gives the empty sequence, a
\* single object the one-element sequence holding it, an array exactly its
\* object elements in their original order, any other scalar the empty
\* sequence.
C13_NormalizeList ==
    \A h \in Finished :
        h.result.type = "return" =>
            LET data == h.result.data
            IN  /\ data = None => h.normalized = <<>>
                /\ IsDict(data) => h.normalized = <<data>>
                /\ IsList(data) => h.normalized = SelectSeq(data[2], IsDict)
                /\ data # None /\ ~IsDict(data) /\ ~IsList(data) => h.normalized = <<>>

\* C13 witness: the array [{"drug_code":1}, 1, {}] was normalized to its two
\* objects, in that order
C13_Witness ==
    /\ Len(hist) = 1
    /\ hist[1].op = "company"
    /\ hist[1].result = Returns(List(<<Dict("{\"drug_code\":1}"), I("1"), Dict("{}")>>))
    /\ hist[1].normalized = <<Dict("{\"drug_code\":1}"), Dict("{}")>>

-----------------------------------------------------------------------------
(* The two executors *)

\* the call went to the network (a call answered by the cache or refused by
\* the parameter builder did not)
Fetched(h) == h.keyed = 1 /\ ~(h.result.type = "return" /\ h.net = 0 /\ h.reads = 1)

\* how HTTPClient._request and get_json end a call whose last attempt had
\* outcome o
BlockingEnd(o, url, params) ==
    IF Raised(o) = NoExc THEN ResponseResult(o, url, params)
    ELSE TransportError(Raised(o), url, params)

\* C14: the two executors behave identically. The blocking executor makes at
\* least one attempt, makes another one exactly while the last one failed
\* retryably and fewer than max_retries were made, and ends with the response
\* or the typed error of its last attempt; so does every call, on either
\* client.
C14_ExecutorsAgree ==
    \A h \in Finished :
        Fetched(h) =>
            /\ h.net >= 1
            /\ h.net = h.fails + (IF RetryableOutcome(h.last) THEN 0 ELSE 1)
            /\ RetryableOutcome(h.last) => StopAfterAttempt(h.net, max_retries)
            /\ h.result = BlockingEnd(h.last, h.url, h.params)

TypedErrors == {"DPDInvalidParam", "DPDHTTPError", "DPDDecodeError"}

\* C15: every call ends with a decoded payload or with one of the typed
\* errors DPDInvalidParam, DPDHTTPError, DPDDecodeError; nothing else (a raw
\* transport exception, an assertion failure) reaches the caller, on either
\* client.
C15_TypedOutcome ==
    \A h \in Finished :
        \/ h.result.type = "return" /\ h.result.data \in JsonValues
        \/ h.result.type \in TypedErrors

\* the budget of the call was used up by failures of the retryable kind
Exhausted(h) == Fetched(h) /\ h.net >= 1 /\ h.fails = h.net

\* C16: when the retry budget is exhausted by retryable failures, the caller
\* gets the error of the last attempt: DPDHTTPError with the last response's
\* status code and the request URL when that attempt was answered 429/5xx,
\* DPDHTTPError with status -1 when it raised a connection-level exception.
C16_LastFailureSurfaced ==
    \A h \in Finished :
        Exhausted(h) =>
            /\ h.net >= max_retries
            /\ h.last.kind = "resp" =>
                  h.result = DPDHTTPError(h.last.status, S(BASE_URL \o h.url \o "?type=json&lang=en&din=02"))
            /\ h.last.kind = "exc" => h.result = DPDHTTPError(0 - 1, None)

\* C16 witness: on an async client with a budget of two attempts, the first
\* answered 500 and the second 502, the caller got DPDHTTPError 502
C16_Witness ==
    /\ variant = "async"
    /\ max_retries = 2
    /\ Len(hist) = 1
    /\ hist[1].net = 2
    /\ hist[1].fails = 2
    /\ hist[1].last = Resp(502, "err2")
    /\ hist[1].result.type = "DPDHTTPError"
    /\ hist[1].result.status_code = 502

-----------------------------------------------------------------------------
(* SpecClose: calls before and after the client is shut down *)

\* what an attempt on a closed httpx client ends in
ClosedOutcome == Exc("RuntimeError")
CloseOutcomes == {Resp(200, "[]"), Resp(200, "{}")}

\* the outcomes an attempt can have now
Reachable(outcomes) == IF closed THEN {ClosedOutcome} ELSE outcomes

InitClose == Construct({S("en")}, {1, 2})

NextClose ==
    \/ \E din \in {None, S("02"), S("03")} : drug_product(1, None, din, None, None, None)
    \/ close
    \/ \E o \in Reachable(CloseOutcomes) : SyncAttempt(1, o)
    \/ \E o \in Reachable(CloseOutcomes) : AsyncAttempt(1, o)
    \/ Tick

SpecClose == InitClose /\ [][NextClose]_vars

\* C17: a call issued after the client was shut down fails; it never returns
\* a payload, whatever the cache holds and however the client is configured.
C17_ClosedClientFails ==
    \A h \in Finished : h.after_close => h.result.type # "return"

-----------------------------------------------------------------------------
(* Backoff and the attempt budget *)

\* C18: a backoff delay is performed only between a failed attempt and the
\* retry that follows it, never after the final attempt of a call: a call
\* that made attempts made one delay less than attempts.
C18_DelaysBetweenAttempts ==
    \A h \in Finished :
        Fetched(h) /\ h.net >= 1 => h.sleeps = h.net - 1

\* the attempts of every call, finished or in flight
Attempts == {h.net : h \in Finished} \cup {calls[s].net : s \in Slots}

\* C19 as stated: the number of network attempts of a call never exceeds
\* max_retries, whatever the configured value and the outcomes.
C19_AsStated == \A n \in Attempts : n <= max_retries

\* C19 amended: the number of network attempts of a call never exceeds
\* max_retries when max_retries is at least 1, and never exceeds one when
\* max_retries is 0.
C19_AttemptsBounded ==
    \A n \in Attempts : n <= (IF max_retries >= 1 THEN max_retries ELSE 1)

\* C19 witness: a blocking call used up a budget of MaxRetriesCfg attempts,
\* all of them failing retryably
C19_Witness ==
    /\ variant = "sync"
    /\ max_retries = MaxRetriesCfg
    /\ Len(hist) = 1
    /\ hist[1].net = max_retries
    /\ hist[1].fails = max_retries
    /\ hist[1].result.type = "DPDHTTPError"

-----------------------------------------------------------------------------
(* SpecLive: SpecRetry, where every attempt and every sleep returns *)

\* a step of the call in slot 1: an attempt or a sleep returns
Step ==
    \/ \E o \in Outcomes : SyncAttempt(1, o)
    \/ SyncSleep(1)
    \/ \E o \in Outcomes : AsyncAttempt(1, o)
    \/ AsyncSleep(1)

SpecLive == InitRetry /\ [][NextRetry]_vars /\ WF_vars(Step)

\* what is left of the budget of a call in flight: two for every attempt not
\* yet started, one for an attempt under way
Measure(c) ==
    LET budget == IF max_retries >= 1 THEN max_retries ELSE 1
    IN  2 * (budget - c.net) + (IF c.pc = "attempt" THEN 1 ELSE 0)

\* every step of a call in flight leaves less of its budget, never less than
\* nothing
Decreases ==
    /\ InFlight(1)' => Measure(calls[1])' >= 0
    /\ InFlight(1) /\ InFlight(1)' /\ calls' # calls =>
          Measure(calls[1])' < Measure(calls[1])

\* C20: every logical call terminates. Provided each attempt and each sleep
\* returns, a call in flight eventually returns or raises, whatever the
\* outcomes of its attempts: each of its steps uses up some of a finite
\* budget.
C20_Terminates ==
    /\ [][Decreases]_vars
    /\ InFlight(1) ~> ~InFlight(1)

\* C20 witness: an async call whose every attempt failed retryably ended when
\* its budget of MaxRetriesCfg attempts was used up
C20_Witness ==
    /\ variant = "async"
    /\ max_retries = MaxRetriesCfg
    /\ ~InFlight(1)
    /\ Len(hist) = 1
    /\ hist[1].net = MaxRetriesCfg
    /\ hist[1].fails = MaxRetriesCfg
    /\ hist[1].sleeps = MaxRetriesCfg
    /\ hist[1].result.type = "DPDHTTPError"

-----------------------------------------------------------------------------
(* The final response and the cache *)

\* the call ended on a response (not on an exception) outside 200..299
NonSuccessFinal(h) ==
    Fetched(h) /\ h.net >= 1 /\ h.last.kind = "resp" /\ h.last.status \notin 200..299

\* C21: a call whose final response has a non-2xx status (1xx and 3xx
\* included) fails with DPDHTTPError carrying that status; the response is
\* not decoded, not returned and not stored in the cache.
C21_NonSuccessIsHTTPError ==
    \A h \in Finished :
        NonSuccessFinal(h) =>
            /\ h.result.type = "DPDHTTPError"
            /\ h.result.status_code = h.last.status
            /\ h.writes = 0

\* C22: the cache is written only at the end of a call that received a
\* successful response and decoded it: a call that ended in an error left
\* the cache as it was, and every entry holds the decoded body of a
\* successful response fetched for its key.
C22_CacheHoldsSuccesses ==
    /\ \A h \in Finished : h.result.type # "return" => cache = EmptyCache
    /\ \A k \in DOMAIN cache :
          \E h \in Finished :
              /\ h.key = k
              /\ h.result.type = "return"
              /\ h.last.kind = "resp"
              /\ h.last.status \in 200..299
              /\ JsonValid(h.last.text)
              /\ cache[k].data = JsonLoads(h.last.text)

-----------------------------------------------------------------------------
(* The cache over successive calls *)

\* this step starts a call with a cache key, and the call it starts (as it
\* is after the step: in flight, or already finished)
StartsCall == started' = started + 1 /\ (InFlight(1)' \/ hist'[Len(hist')].keyed = 1)
StartedCall == IF InFlight(1)' THEN calls'[1] ELSE hist'[Len(hist')]

\* the steps of C23: a call that finds an entry for its key
FreshnessStep ==
    StartsCall /\ cache_ttl # 0 /\ StartedCall.key \in DOMAIN cache =>
        LET entry == cache[StartedCall.key]
        IN  IF now <= entry.expiry
            THEN /\ ~InFlight(1)'
                 /\ hist'[Len(hist')].result = Returns(entry.data)
                 /\ hist'[Len(hist')].net = 0
            ELSE /\ InFlight(1)'
                 /\ calls'[1].net = 1

\* the steps of C23: a store
StoreStep ==
    \A k \in DOMAIN cache' :
        (k \notin DOMAIN cache \/ cache'[k] # cache[k]) =>
            cache'[k].expiry = now + cache_ttl

\* C23: with caching enabled, a call whose key has an entry with
\* now <= expiry returns the stored payload without a network attempt, a call
\* whose key has an entry with now > expiry makes a network attempt; the
\* expiry stored is the time of the store plus the TTL.
C23_Freshness == [][FreshnessStep /\ StoreStep]_vars

\* C23 witness: the second of two identical calls started at the very
\* instant the entry expires and was served from it
C23_Witness ==
    /\ cache_ttl = 1
    /\ TwoIdentical
    /\ hist[1].writes = 1
    /\ hist[1].t_end = 0
    /\ hist[2].t_start = 1
    /\ cache[hist[2].key].expiry = 1
    /\ hist[2].net = 0
    /\ hist[2].result = hist[1].result

\* C24: on a client constructed with cache_ttl None or 0 the cache mapping
\* is empty in every reachable state, whatever calls succeeded or failed.
C24_DisabledCacheEmpty ==
    ttl_arg \in {NoTtl, Ttl(0)} => cache_ttl = 0 /\ cache = EmptyCache

\* C24 witness: on a client constructed with cache_ttl=0 two calls were
\* answered, and nothing is in the cache
C24_Witness ==
    /\ ttl_arg = Ttl(0)
    /\ Len(hist) = 2
    /\ \A i \in 1..2 : hist[i].result.type = "return" /\ hist[i].net >= 1
    /\ cache = EmptyCache

-----------------------------------------------------------------------------
(* SpecConc: calls awaited together on one async client. A call runs without
   interruption from one await to the next: from its start to the first
   attempt, from the return of an attempt or of a sleep to the next await
   or to its end. *)

ConcDins == {S("02"), S("03")}
ConcOutcomes == {Resp(200, "[]"), Resp(200, "{}"), Resp(500, "err1")}

InitConc == Construct({S("en")}, {1, 2}) /\ variant = "async"

NextConc ==
    \/ \E s \in Slots, din \in ConcDins : drug_product(s, None, din, None, None, None)
    \/ \E s \in Slots, o \in ConcOutcomes : AsyncAttempt(s, o)
    \/ \E s \in Slots : AsyncSleep(s)

SpecConc == InitConc /\ [][NextConc]_vars

\* the call this step ends, if it ends one
EndsCall == hist' # hist
EndedCall == hist'[Len(hist')]

\* every entry is an (expiry, payload) pair of a time and a decoded body
WellFormed ==
    \A k \in DOMAIN cache :
        /\ DOMAIN cache[k] = {"expiry", "data"}
        /\ cache[k].expiry \in Nat
        /\ cache[k].data \in JsonValues

\* the cache changes only when a call ends that was answered, and then the
\* entry of its key, and no other, is that call's payload: of two calls
\* fetching for one key the one that ends last leaves the entry
LastWriteWins ==
    IF EndsCall /\ cache_ttl # 0 /\ EndedCall.result.type = "return" /\ EndedCall.net >= 1
    THEN /\ DOMAIN cache' = DOMAIN cache \cup {EndedCall.key}
         /\ cache'[EndedCall.key] =
               [expiry |-> now + cache_ttl, data |-> JsonLoads(EndedCall.last.text)]
         /\ \A k \in DOMAIN cache : k # EndedCall.key => cache'[k] = cache[k]
    ELSE cache' = cache

\* a call ends as its own attempts make it end, whatever the other call did
NoCrash ==
    EndsCall =>
        \/ EndedCall.net = 0 /\ EndedCall.result.type = "return"
        \/ EndedCall.net >= 1 /\ EndedCall.result =
              BlockingEnd(EndedCall.last, EndedCall.url, EndedCall.params)

\* C25: under any interleaving of calls awaited together on one async client
\* the cache is never corrupted: every entry is a well-formed pair whose
\* payload was fetched by a call for that key; calls missing together for one
\* key each fetch and the entry left is the one written last; no call
\* crashes.
C25_BenignRace == [][WellFormed' /\ LastWriteWins /\ NoCrash]_vars

\* C25 witness: two calls for one key missed together, each fetched, they
\* were answered differently, and the entry is that of the call that ended
\* last
C25_Witness ==
    /\ cache_ttl = 1
    /\ Len(hist) = 2
    /\ hist[1].key = hist[2].key
    /\ hist[1].net = 1 /\ hist[2].net = 1
    /\ hist[1].result = Returns(List(<<>>))
    /\ hist[2].result = Returns(Dict("{}"))
    /\ hist[1].t_end = hist[2].t_start
    /\ cache[hist[2].key].data = Dict("{}")

-----------------------------------------------------------------------------
(* SpecCancel: SpecConc, where the caller may cancel a suspended call *)

NextCancel ==
    \/ NextConc
    \/ \E s \in Slots : CancelAttempt(s)
    \/ \E s \in Slots : CancelSleep(s)

SpecCancel == InitConc /\ [][NextCancel]_vars

WasCancelled(h) == h.result.type = Cancelled.text

\* C26: an async call cancelled while suspended in an attempt or in a sleep
\* ends there: it is not in flight after the cancellation, so it makes no
\* further attempt, and the step that ends it leaves the cache as it was.
C26_CancelledCallStops ==
    [][ /\ \A s \in Slots : InFlight(s)' => calls'[s].last # Cancelled
        /\ \A h \in Finished' : h.last = Cancelled => WasCancelled(h)
        /\ EndsCall /\ WasCancelled(EndedCall) =>
              /\ cache' = cache
              /\ EndedCall.writes = 0
              /\ \E s \in Slots :
                    /\ InFlight(s) /\ ~InFlight(s)'
                    /\ EndedCall.net = calls[s].net ]_vars

\* C26 witness: a call cancelled in the sleep after its failed first attempt
\* ended with one attempt made, and the other call's entry is all the cache
\* holds
C26_Witness ==
    /\ max_retries = 2
    /\ cache_ttl = 1
    /\ Len(hist) = 2
    /\ hist[1].result.type = "return" /\ hist[1].writes = 1
    /\ WasCancelled(hist[2])
    /\ hist[2].key # hist[1].key
    /\ hist[2].net = 1 /\ hist[2].sleeps = 0 /\ hist[2].fails = 1
    /\ DOMAIN cache = {hist[1].key}

-----------------------------------------------------------------------------
(* SpecBackoff: one call with budgets large enough for the delays to reach
   their ceiling *)

BackoffOutcomes == {Resp(200, "[]"), Resp(500, "err1"), Exc("ConnectError")}

InitBackoff == Construct({S("en")}, 1..MaxBackoffCfg)

NextBackoff ==
    \/ First /\ drug_product(1, None, S("02"), None, None, None)
    \/ \E o \in BackoffOutcomes : SyncAttempt(1, o)
    \/ SyncSleep(1)
    \/ \E o \in BackoffOutcomes : AsyncAttempt(1, o)
    \/ AsyncSleep(1)

SpecBackoff == InitBackoff /\ [][NextBackoff]_vars

\* this step ends an attempt of the call in slot 1 and starts a delay
StartsDelay == calls[1].pc = "attempt" /\ calls'[1].pc = "sleep"

\* C27 as stated: in both executors each delay is at least the delay before
\* it in the same call and at most the ceiling of 4 seconds.
C27_AsStated ==
    [][StartsDelay =>
          /\ calls'[1].delay >= calls[1].delay
          /\ calls'[1].delay <= MaxDelay]_vars

\* the delay without its random part, after n attempts, and its ceiling
BlockingBase(n) == Min(Initial * 2 ^ (n - 1), MaxDelay)

\* C27 amended: in both executors no delay exceeds the ceiling of 4 seconds.
\* In the async executor the delay after n failed attempts is
\* min(4.0, 2^(n-1) + 0.1 n) and each delay is at least the one before it. In
\* the blocking executor the delay after n attempts is
\* min(4, 0.5 * 2^(n-1) + jitter) with a jitter of 0 to 1 second drawn for
\* every delay: it lies between min(4, 0.5 * 2^(n-1)), which grows with n, and
\* that plus 1 second, and may be up to 1 second shorter than the delay before
\* it.
C27_DelaysBounded ==
    [][StartsDelay =>
          /\ calls'[1].delay <= MaxDelay
          /\ calls'[1].delay > 0
          /\ variant = "async" =>
                /\ calls'[1].delay >= calls[1].delay
                /\ calls'[1].delay = Min(MaxDelay, 10 * 2 ^ (calls[1].net - 1) + calls[1].net)
          /\ variant = "sync" =>
                /\ calls'[1].delay >= BlockingBase(calls[1].net)
                /\ calls'[1].delay <= BlockingBase(calls[1].net) + 10
                /\ calls'[1].delay >= calls[1].delay - 10
                /\ BlockingBase(calls[1].net + 1) >= BlockingBase(calls[1].net)]_vars

\* C27 witness: a blocking call waits the full 4 seconds after its fourth
\* failed attempt
C27_Witness ==
    /\ variant = "sync"
    /\ calls[1].pc = "sleep"
    /\ calls[1].net = 4
    /\ calls[1].fails = 4
    /\ calls[1].delay = MaxDelay

-----------------------------------------------------------------------------
(* C28, under Spec: entries are never removed *)

\* a key of the cache is a key of the cache after the step
KeysStay == \A k \in DOMAIN cache : k \in DOMAIN cache'

\* an entry changes only as a call for its key ends that found it expired,
\* went to the network and was answered
OverwrittenOnMiss ==
    \A k \in DOMAIN cache :
        k \in DOMAIN cache' /\ cache'[k] # cache[k] =>
            /\ EndsCall
            /\ EndedCall.key = k
            /\ EndedCall.net >= 1
            /\ EndedCall.result.type = "return"
            /\ cache[k].expiry < EndedCall.t_start

\* C28: no step removes a key from the cache, and an entry, expired or not,
\* stays as it is until a call for the same key that missed stores over it.
C28_LazyExpiry == [][KeysStay /\ OverwrittenOnMiss]_vars

\* C28 witness: an entry expired before a call for another key began, that
\* call stored its own entry, and the expired entry is still there
C28_Witness ==
    /\ Len(hist) = 2
    /\ hist[2].writes = 1
    /\ \E k \in DOMAIN cache :
          /\ k # hist[2].key
          /\ cache[k].expiry < hist[2].t_start
          /\ cache[k].expiry < now

-----------------------------------------------------------------------------
(* SpecOverwrite: one request made again and again on one client, long
   enough for its entry to be stored, to expire, to be stored over and to be
   read *)

MaxOverwriteCalls == 3   \* calls made on the client
OverwriteUrl == "drugproduct/"
OverwriteParams == <<<<"id", I("5")>>, <<"lang", S("en")>>>>
OverwriteOutcomes == {Resp(200, "[]"), Resp(200, "{}"), Resp(500, "err1")}

\* get_json, for the one request
OverwriteCall ==
    /\ ~InFlight(1)
    /\ started < MaxOverwriteCalls
    /\ started' = started + 1
    /\ get_json(1, "get_json", OverwriteUrl, NoArgs, OverwriteParams)
    /\ UNCHANGED <<Config, closed, now>>

\* time passes between the calls
OverwriteTick ==
    /\ now < MaxTime
    /\ now' = now + 1
    /\ UNCHANGED <<Config, closed, cache, calls, started, hist>>

InitOverwrite == Construct({S("en")}, {2})

NextOverwrite ==
    \/ OverwriteCall
    \/ \E o \in OverwriteOutcomes : SyncAttempt(1, o)
    \/ SyncSleep(1)
    \/ \E o \in OverwriteOutcomes : AsyncAttempt(1, o)
    \/ AsyncSleep(1)
    \/ OverwriteTick

SpecOverwrite == InitOverwrite /\ [][NextOverwrite]_vars

\* the call found an entry for its key that had expired
FoundExpired(h) == h.hit # NoHit /\ h.hit.expiry < h.t_start

\* the entry a call that was answered leaves for its key
Stored(h) == [expiry |-> h.t_end + cache_ttl, data |-> h.result.data]

\* the step that ends a call which found an expired entry and was answered
OverwriteStep ==
    EndsCall /\ FoundExpired(EndedCall) /\ EndedCall.result.type = "return" =>
        /\ EndedCall.net >= 1
        /\ DOMAIN cache' = DOMAIN cache
        /\ cache'[EndedCall.key] = Stored(EndedCall)
        /\ EndedCall.result.data = JsonLoads(EndedCall.last.text)

\* the call made after one that stored over an expired entry
ServedFromNew ==
    /\ Len(hist) = 2
    /\ FoundExpired(hist[1])
    /\ hist[1].result.type = "return"
    /\ hist[2].keyed = 1
    /\ hist[2].key = hist[1].key
    /\ hist[2].t_start <= hist[1].t_end + cache_ttl
    => /\ hist[2].net = 0
       /\ hist[2].result = hist[1].result
       /\ cache[hist[2].key] = Stored(hist[1])

\* C29: a call that finds the entry of its key expired and is answered went
\* to the network and leaves, for that key and in place of the old entry, the
\* new payload with the expiry (time of the store + TTL); the identical call
\* made within the TTL after it returns that payload without a network
\* attempt.
C29_OverwriteThenHit == [][OverwriteStep /\ ServedFromNew']_vars

\* C29 witness: an entry was stored and expired, the second call stored a
\* different payload over it, and the third call was served from the new
\* entry
C29_Witness ==
    /\ started = 3
    /\ Len(hist) = 2
    /\ FoundExpired(hist[1])
    /\ hist[1].result.type = "return"
    /\ hist[1].hit.data # hist[1].result.data
    /\ hist[2].net = 0
    /\ hist[2].result = hist[1].result
    /\ cache[hist[2].key] = Stored(hist[1])

-----------------------------------------------------------------------------
(* SpecCollide: drug_product called with brand names and DINs, among them a
   brand name that holds the characters _cache_key joins its parts with *)

CollideBrands == {S("A"), S("A&din=02")}
CollideDins == {None, S("02")}
CollideOutcomes == {Resp(200, "[]"), Resp(200, "{}")}

InitCollide == Construct({S("en")}, {1})

NextCollide ==
    \/ \E brandname \in CollideBrands, din \in CollideDins :
          drug_product(1, None, din, brandname, None, None)
    \/ \E o \in CollideOutcomes : SyncAttempt(1, o)
    \/ \E o \in CollideOutcomes : AsyncAttempt(1, o)
    \/ Tick

SpecCollide == InitCollide /\ [][NextCollide]_vars

\* the two calls asked for the same thing: the same endpoint and the same
\* parameter mapping
SameRequest(h1, h2) == h1.url = h2.url /\ SamePairs(h1.params, h2.params)

\* C30: two calls that have the same cache key have the same endpoint and
\* the same parameter mapping, and a call served from the cache returns a
\* payload that a call with the same endpoint and the same parameter mapping
\* stored.
C30_HitFromSameRequest ==
    /\ \A h1, h2 \in Finished :
          h1.keyed = 1 /\ h2.keyed = 1 /\ h1.key = h2.key => SameRequest(h1, h2)
    /\ (/\ Len(hist) = 2
        /\ hist[1].writes = 1
        /\ hist[2].keyed = 1
        /\ hist[2].net = 0
        /\ hist[2].result.type = "return"
        /\ hist[2].key = hist[1].key) => SameRequest(hist[1], hist[2])

-----------------------------------------------------------------------------
(* C31, under Spec: what a call served from the cache does to the cache *)

\* the step is a whole call: it began and was served from the cache
HitStep ==
    /\ StartsCall
    /\ ~InFlight(1)'
    /\ EndedCall.keyed = 1
    /\ EndedCall.net = 0
    /\ EndedCall.result.type = "return"

\* C31: a call served from the cache leaves the cache as it was: no entry is
\* added, replaced or removed and the expiry of the entry served stays the
\* time of its store plus the TTL.
C31_HitLeavesCache == [][HitStep => cache' = cache]_vars

\* C31 witness: an entry stored at time 0 with a TTL of 1 was served at time
\* 1 and expires at 1 still
C31_Witness ==
    /\ cache_ttl = 1
    /\ Len(hist) = 2
    /\ hist[1].writes = 1
    /\ hist[1].t_end = 0
    /\ hist[2].hit = [expiry |-> 1, data |-> hist[1].result.data]
    /\ hist[2].net = 0
    /\ hist[2].t_end = 1
    /\ cache[hist[2].key] = hist[2].hit

-----------------------------------------------------------------------------
(* C32, under Spec: a call that is not served from the cache *)

\* the lookup of the call found no entry, or an expired one
Missed(h) == h.keyed = 1 /\ ~(h.hit # NoHit /\ h.hit.expiry >= h.t_start)

\* C32: a call that missed the cache made at least one network attempt before
\* it returned or failed, whatever max_retries (0 included) and whichever
\* executor; a failure it reports is the failure of an attempt it made.
C32_AttemptOnMiss ==
    \A h \in Finished :
        Missed(h) =>
            /\ h.net >= 1
            /\ h.result.type = "error" => h.last # NoExc

-----------------------------------------------------------------------------
(* C33, under SpecRetry: an attempt that raises a transport exception outside
   the tuple Retryable (httpx.ReadTimeout stands for the timeouts) *)

NonRetryableExc(o) ==
    /\ o.kind = "exc"
    /\ o.text \in HTTPErrors \ (Retryable \cup {"HTTPStatusError"})

\* C33: the attempt that raises a transport exception outside the retryable
\* set is the last of its call: the call fails there, with no backoff delay
\* after it and no cache write (after exactly one attempt and no delay at all
\* when it is the first attempt), on the blocking and on the async client and
\* for every retry budget.
C33_NonRetryableTerminal ==
    /\ \A h \in Finished :
          NonRetryableExc(h.last) =>
              /\ h.result.type # "return"
              /\ h.net = h.fails + 1
              /\ h.sleeps = h.fails
              /\ h.fails = 0 => (h.net = 1 /\ h.sleeps = 0)
              /\ h.writes = 0
    /\ \A s \in Slots : InFlight(s) => ~NonRetryableExc(calls[s].last)
    /\ (\E h \in Finished : NonRetryableExc(h.last)) /\ started = 1 => cache = EmptyCache

\* C33 witness: a caching client with a budget of 3 whose first attempt
\* raised ReadTimeout: one attempt, no delay, an error, an empty cache
C33_Witness ==
    /\ max_retries = 3
    /\ cache_ttl > 0
    /\ Len(hist) = 1
    /\ hist[1].last = Exc("ReadTimeout")
    /\ hist[1].net = 1
    /\ hist[1].sleeps = 0
    /\ hist[1].result.type # "return"
    /\ cache = EmptyCache

-----------------------------------------------------------------------------
(* C34, under Spec: the derivations of a cache key (the field keyed counts
   the evaluations of _cache_key a call has made) *)

\* C34: on a client whose TTL is zero or unset no call to get_json derives a
\* cache key, neither a call that has ended nor one still under way.
C34_NoKeyWhenDisabled ==
    cache_ttl = 0 =>
        /\ \A h \in Finished : h.keyed = 0
        /\ \A s \in Slots : calls[s].keyed = 0

-----------------------------------------------------------------------------
(* SpecSigned: calls made one after the other on a client constructed with a
   cache_ttl that is negative, zero or positive *)

SignedTtlArgs == {Ttl(n) : n \in (0 - MaxTtl)..MaxTtl}
SignedOutcomes == {Resp(200, "[]"), Resp(200, "{}")}

InitSigned == ConstructWith({S("en")}, {1}, SignedTtlArgs)

NextSigned ==
    \/ \E din \in {S("02"), S("03")} : drug_product(1, None, din, None, None, None)
    \/ \E o \in SignedOutcomes : SyncAttempt(1, o)
    \/ \E o \in SignedOutcomes : AsyncAttempt(1, o)
    \/ Tick

SpecSigned == InitSigned /\ [][NextSigned]_vars

\* C35: whatever the configured cache_ttl, negative values included, an
\* entry a call has stored does not expire before the time of its store, and
\* the identical call made at the instant of the store is served from it.
C35_FreshWhenStored ==
    /\ \A h \in Finished : h.writes = 1 => cache[h.key].expiry >= h.t_end
    /\ (/\ TwoIdentical
        /\ hist[1].writes = 1
        /\ hist[2].t_start = hist[1].t_end) => hist[2].net = 0
====
